---- MODULE Spec2Model ----
(***************************************************************************)
(* Model of the two cores of the repository:                               *)
(*   - src/solana_insights.py : generate_insights, the concurrent         *)
(*     three-source fetch (asyncio.gather) followed by one Model query.    *)
(*   - src/mcp_web3.py        : chat, the /api/chat turn that queries the  *)
(*     Model once and dispatches a requested tool through function_map.    *)
(* Python strings are modelled as sequences of tokens (each token a TLA+   *)
(* string), so that f-string concatenation is sequence concatenation.      *)
(***************************************************************************)
EXTENDS Integers, Sequences, FiniteSets, TLC

VARIABLES
    ipc,          \* position of generate_insights: idle / gather / query / done
    params,       \* its arguments: coin, token_address, wallet_address, reasoning_effort
    task,         \* per source: position of the fetch coroutine
    wire,         \* per source: what the network did to the request
    result,       \* per source: value returned by the fetch coroutine
    aggregate,    \* sentiment_data, token_data, trader_data after the gather
    prompt,       \* prompt handed to query_openai
    openaiCalls,  \* number of ChatCompletion.acreate calls made by query_openai
    summary,      \* value returned by generate_insights
    finished,     \* the sources in the order in which their fetches ended
    answer,       \* what the Model call of query_openai produced: text or exception
    cpc,          \* position of chat: idle / awaiting_model / replied / done
    request,      \* JSON body of the POST: messages, reasoning_effort
    messages,     \* the conversation log sent to the Model
    modelCalls,   \* number of ChatCompletion.create calls made by chat itself
    modelError,   \* exception raised by the Model call of chat, if any
    reply,        \* response.choices[0].message as the Model produced it
    message,      \* the same object as chat holds it (content may be rewritten)
    call,         \* what the dispatch of the requested tool did
    response      \* what chat hands back to the HTTP caller

insightVars == <<ipc, params, task, wire, result, aggregate, prompt, openaiCalls, summary,
                 finished, answer>>

chatVars == <<cpc, request, messages, modelCalls, modelError, reply, message, call, response>>

vars == <<insightVars, chatVars>>

(***************************************************************************)
(* Bounds of the model.                                                    *)
(***************************************************************************)
NumPayloads == 2
MaxTextLen == 2

None == "None"

(***************************************************************************)
(* Inputs.                                                                 *)
(***************************************************************************)
Sources == {"sentiment", "token", "trader"}

Coins == {"BONK"}
TokenAddresses == {"So111"}
WalletAddresses == {"Wal9"}
ReasoningEfforts == {"low", "medium", "high"}

\* HTTP status codes the upstreams answer with.
Statuses == {200, 404, 500}

\* JSON bodies an upstream may return with status 200.
Payloads == {[data |-> <<"d", ToString(n)>>] : n \in 1..NumPayloads}

\* Exceptions that session.get / resp.json can raise, each with its str().
\* A timeout surfaces as asyncio.TimeoutError, whose str() is empty.
ConnectionError == [cls |-> "ClientConnectorError", msg |-> <<"Cannot connect to host">>]
TimeoutError == [cls |-> "TimeoutError", msg |-> <<>>]
ContentTypeError == [cls |-> "ContentTypeError", msg |-> <<"unexpected mimetype">>]

RequestExceptions == {ConnectionError, TimeoutError}
BodyExceptions == {ContentTypeError, TimeoutError}

NoException == [cls |-> None, msg |-> <<>>]

\* str(e)
Str(e) == e.msg

\* Characters of a Model reply and the replies themselves.
Chars == {" ", "a"}
Texts == UNION {[1..n -> Chars] : n \in 0..MaxTextLen}

RECURSIVE LStrip(_)
LStrip(s) == IF s # <<>> /\ Head(s) = " " THEN LStrip(Tail(s)) ELSE s

RECURSIVE RStrip(_)
RStrip(s) == IF s # <<>> /\ s[Len(s)] = " " THEN RStrip(SubSeq(s, 1, Len(s) - 1)) ELSE s

\* str.strip()
Strip(s) == RStrip(LStrip(s))

\* json.dumps(value, indent=2): the serialised text of value.
JsonDumps(v) == [json |-> v]

(***************************************************************************)
(* The three fetch coroutines.                                             *)
(***************************************************************************)
\* Name used in the non-200 error text of each fetch function.
ApiName(s) == IF s = "sentiment" THEN "Sentiment" ELSE "Solscan"

\* {"error": f"... API returned status code {resp.status}"}
StatusError(s, status) == [error |-> <<ApiName(s), " API returned status code ", ToString(status)>>]

\* {"error": str(e)}
ExceptionError(e) == [error |-> Str(e)]

NoResult == [none |-> <<>>]

\* The task is scheduled and runs up to its first suspension, session.get(url).
FetchStart(s) ==
    /\ ipc = "gather"
    /\ task[s] = "created"
    /\ task' = [task EXCEPT ![s] = "requesting"]
    /\ UNCHANGED <<chatVars, ipc, params, wire, result, aggregate, prompt, openaiCalls, summary, finished, answer>>

\* The response headers arrive: status 200 goes on to read the body,
\* any other status returns the error dict.
FetchResponse(s, status) ==
    /\ task[s] = "requesting"
    /\ IF status = 200
         THEN /\ task' = [task EXCEPT ![s] = "reading"]
              /\ UNCHANGED <<wire, result, finished>>
         ELSE /\ task' = [task EXCEPT ![s] = "done"]
              /\ finished' = Append(finished, s)
              /\ wire' = [wire EXCEPT ![s] = "status"]
              /\ result' = [result EXCEPT ![s] = StatusError(s, status)]
    /\ UNCHANGED <<chatVars, ipc, params, aggregate, prompt, openaiCalls, summary, answer>>

\* Mutant: the exception is not caught, the coroutine ends without a value.
FetchRequestRaises_Uncaught(s, e) ==
    /\ task[s] = "requesting"
    /\ finished' = Append(finished, s)
    /\ task' = [task EXCEPT ![s] = "done"]
    /\ wire' = [wire EXCEPT ![s] = IF e = TimeoutError THEN "timeout" ELSE "exception"]
    /\ UNCHANGED <<chatVars, ipc, params, result, aggregate, prompt, openaiCalls, summary, answer>>

\* Mutant: a timeout also cancels the sibling fetches that are still running.
FetchRequestRaises_CancelSiblings(s, e) ==
    /\ task[s] = "requesting"
    /\ finished' = Append(finished, s)
    /\ task' = [t \in Sources |-> IF t = s \/ e = TimeoutError THEN "done" ELSE task[t]]
    /\ wire' = [wire EXCEPT ![s] = IF e = TimeoutError THEN "timeout" ELSE "exception"]
    /\ result' = [t \in Sources |->
                    IF t = s \/ (e = TimeoutError /\ task[t] # "done")
                      THEN ExceptionError(e) ELSE result[t]]
    /\ UNCHANGED <<chatVars, ipc, params, aggregate, prompt, openaiCalls, summary, answer>>

\* session.get raises (transport failure or timeout): caught by except Exception.
FetchRequestRaises(s, e) ==
    /\ task[s] = "requesting"
    /\ finished' = Append(finished, s)
    /\ task' = [task EXCEPT ![s] = "done"]
    /\ wire' = [wire EXCEPT ![s] = IF e = TimeoutError THEN "timeout" ELSE "exception"]
    /\ result' = [result EXCEPT ![s] = ExceptionError(e)]
    /\ UNCHANGED <<chatVars, ipc, params, aggregate, prompt, openaiCalls, summary, answer>>

\* await resp.json() returns the decoded body.
FetchBody(s, data) ==
    /\ task[s] = "reading"
    /\ finished' = Append(finished, s)
    /\ task' = [task EXCEPT ![s] = "done"]
    /\ wire' = [wire EXCEPT ![s] = "ok"]
    /\ result' = [result EXCEPT ![s] = data]
    /\ UNCHANGED <<chatVars, ipc, params, aggregate, prompt, openaiCalls, summary, answer>>

\* await resp.json() raises (bad body or timeout while reading).
FetchBodyRaises(s, e) ==
    /\ task[s] = "reading"
    /\ finished' = Append(finished, s)
    /\ task' = [task EXCEPT ![s] = "done"]
    /\ wire' = [wire EXCEPT ![s] = IF e = TimeoutError THEN "timeout" ELSE "exception"]
    /\ result' = [result EXCEPT ![s] = ExceptionError(e)]
    /\ UNCHANGED <<chatVars, ipc, params, aggregate, prompt, openaiCalls, summary, answer>>

(***************************************************************************)
(* generate_insights.                                                      *)
(***************************************************************************)
\* Order in which the tasks are passed to asyncio.gather.
GatherOrder == <<"sentiment", "token", "trader">>

\* Mutant: one failed fetch blanks the whole gathered list.
GatherResults_AbortOnError(res) ==
    [i \in 1..Len(GatherOrder) |->
        IF \E s \in Sources : "error" \in DOMAIN res[s] THEN NoResult ELSE res[GatherOrder[i]]]

\* Mutant: the results are listed in the order in which the fetches ended.
GatherResults_CompletionOrder(res) ==
    [i \in 1..Len(GatherOrder) |-> IF i <= Len(finished) THEN res[finished[i]] ELSE NoResult]

\* asyncio.gather: the list of results in the order of its arguments.
GatherResults(res) == [i \in 1..Len(GatherOrder) |-> res[GatherOrder[i]]]

\* sentiment_data, token_data, trader_data = <gathered list>
Unpack(gathered) ==
    [sentiment |-> gathered[1], token |-> gathered[2], trader |-> gathered[3]]

NoAggregate == <<>>

\* Mutant: a source that failed is left out of the prompt as an empty object.
BuildPrompt_HideErrors(p, agg) ==
    LET shown(v) == IF "error" \in DOMAIN v THEN JsonDumps(<<>>) ELSE JsonDumps(v)
    IN  << <<"Market Sentiment for ", p.coin, shown(agg.sentiment)>>,
           <<"Token Metadata for address ", p.token_address, shown(agg.token)>>,
           <<"Trader (Wallet) Data for address ", p.wallet_address, shown(agg.trader)>> >>

\* The f-string prompt: one section per source, then the instructions.
BuildPrompt(p, agg) ==
    << <<"Market Sentiment for ", p.coin, JsonDumps(agg.sentiment)>>,
       <<"Token Metadata for address ", p.token_address, JsonDumps(agg.token)>>,
       <<"Trader (Wallet) Data for address ", p.wallet_address, JsonDumps(agg.trader)>> >>

\* The call: three tasks are created, then the coroutine awaits the gather.
GenerateInsights(coin, token_address, wallet_address, reasoning_effort) ==
    /\ ipc = "idle"
    /\ ipc' = "gather"
    /\ params' = [coin |-> coin, token_address |-> token_address,
                  wallet_address |-> wallet_address, reasoning_effort |-> reasoning_effort]
    /\ task' = [s \in Sources |-> "created"]
    /\ UNCHANGED <<chatVars, wire, result, aggregate, prompt, openaiCalls, summary, finished, answer>>

\* Mutant: the gather returns as soon as the first task is done.
GatherReturns_FirstCompleted ==
    /\ ipc = "gather"
    /\ \E s \in Sources : task[s] = "done"
    /\ aggregate' = Unpack(GatherResults(result))
    /\ prompt' = BuildPrompt(params, aggregate')
    /\ openaiCalls' = openaiCalls + 1
    /\ ipc' = "query"
    /\ UNCHANGED <<chatVars, params, task, wire, result, summary, finished, answer>>

\* The gather resumes the coroutine once every task is done; the prompt is
\* built and query_openai issues its request.
GatherReturns ==
    /\ ipc = "gather"
    /\ \A s \in Sources : task[s] = "done"
    /\ aggregate' = Unpack(GatherResults(result))
    /\ prompt' = BuildPrompt(params, aggregate')
    /\ openaiCalls' = openaiCalls + 1
    /\ ipc' = "query"
    /\ UNCHANGED <<chatVars, params, task, wire, result, summary, finished, answer>>

\* f"Error querying OpenAI API: {str(e)}"
QueryErrorText(e) == <<"Error querying OpenAI API: ">> \o Str(e)

\* Texts the Model may answer the synthesis prompt with: any text, among
\* them one that reads like the error text of query_openai.
Narratives == Texts \cup {QueryErrorText(ConnectionError)}

NoAnswer == [ok |-> FALSE, text |-> <<>>, exc |-> NoException]

\* query_openai: the Model answers; the stripped content is returned.
QueryReturns(text) ==
    /\ ipc = "query"
    /\ answer' = [ok |-> TRUE, text |-> text, exc |-> NoException]
    /\ summary' = [kind |-> "text", text |-> Strip(text)]
    /\ ipc' = "done"
    /\ UNCHANGED <<chatVars, params, task, wire, result, aggregate, prompt, openaiCalls, finished>>

\* query_openai: the Model call raises; the error text is returned as the answer.
QueryRaises(e) ==
    /\ ipc = "query"
    /\ answer' = [ok |-> FALSE, text |-> <<>>, exc |-> e]
    /\ summary' = [kind |-> "text", text |-> QueryErrorText(e)]
    /\ ipc' = "done"
    /\ UNCHANGED <<chatVars, params, task, wire, result, aggregate, prompt, openaiCalls, finished>>

InitInsights ==
    /\ ipc = "idle"
    /\ params = [coin |-> None, token_address |-> None,
                 wallet_address |-> None, reasoning_effort |-> None]
    /\ task = [s \in Sources |-> "none"]
    /\ wire = [s \in Sources |-> "none"]
    /\ result = [s \in Sources |-> NoResult]
    /\ aggregate = NoAggregate
    /\ prompt = <<>>
    /\ openaiCalls = 0
    /\ summary = [kind |-> "none", text |-> <<>>]
    /\ finished = <<>>
    /\ answer = NoAnswer

NextInsights ==
    \/ \E c \in Coins, t \in TokenAddresses, w \in WalletAddresses, r \in ReasoningEfforts :
          GenerateInsights(c, t, w, r)
    \/ \E s \in Sources : FetchStart(s)
    \/ \E s \in Sources, status \in Statuses : FetchResponse(s, status)
    \/ \E s \in Sources, e \in RequestExceptions : FetchRequestRaises(s, e)
    \/ \E s \in Sources, data \in Payloads : FetchBody(s, data)
    \/ \E s \in Sources, e \in BodyExceptions : FetchBodyRaises(s, e)
    \/ GatherReturns
    \/ \E text \in Narratives : QueryReturns(text)
    \/ \E e \in RequestExceptions : QueryRaises(e)

(***************************************************************************)
(* mcp_web3.py: JSON values, the tool functions and the registry.          *)
(***************************************************************************)
\* A key that a dict does not have.
Absent == "<absent>"

\* JSON / Python values: strings, numbers and dicts.
JStr(text) == [t |-> "str", v |-> text]
JNum(text) == [t |-> "int", v |-> text]
JList == [t |-> "list", v |-> <<>>]
JDict(items) == [t |-> "dict", items |-> items]
EmptyDict == JDict(<<>>)

Keys(d) == DOMAIN d.items

\* Source texts used as tool arguments: Solidity-like text with blank and
\* indented lines, and a text that looks like Python.
SolidityCode == <<" ", "a", "\n", " ", "\n", "a">>
PythonCode == <<"def ", "a">>
ProblemText == <<"token contract">>

\* The arguments strings the Model may produce, with what json.loads makes
\* of each: a value, or an exception for text that is not JSON.
ArgumentStrings ==
    { "{}",
      "{\"problem\": \"token contract\"}",
      "{\"code\": \"<solidity>\"}",
      "{\"code\": \"<python>\"}",
      "{\"code\": 7}",
      "{\"code\": \"<solidity>\", \"network\": \"devnet\"}",
      "{\"description\": \"token contract\"}",
      "{\"contract_address\": \"0xabc\", \"function_name\": \"mint\", \"params\": {}}",
      "{\"contract_address\": \"0xabc\"}",
      "[]",
      "{\"code\": " }

JSONDecodeError == [cls |-> "JSONDecodeError", msg |-> <<"Expecting value">>]

Loaded(v) == [ok |-> TRUE, value |-> v, exc |-> JSONDecodeError]
LoadFails == [ok |-> FALSE, value |-> EmptyDict, exc |-> JSONDecodeError]

\* json.loads
JsonLoads(s) ==
    CASE s = "{}" -> Loaded(EmptyDict)
      [] s = "{\"problem\": \"token contract\"}" -> Loaded(JDict([problem |-> JStr(ProblemText)]))
      [] s = "{\"code\": \"<solidity>\"}" -> Loaded(JDict([code |-> JStr(SolidityCode)]))
      [] s = "{\"code\": \"<python>\"}" -> Loaded(JDict([code |-> JStr(PythonCode)]))
      [] s = "{\"code\": 7}" -> Loaded(JDict([code |-> JNum(<<"7">>)]))
      [] s = "{\"code\": \"<solidity>\", \"network\": \"devnet\"}" ->
             Loaded(JDict([code |-> JStr(SolidityCode), network |-> JStr(<<"devnet">>)]))
      [] s = "{\"description\": \"token contract\"}" -> Loaded(JDict([description |-> JStr(ProblemText)]))
      [] s = "{\"contract_address\": \"0xabc\", \"function_name\": \"mint\", \"params\": {}}" ->
             Loaded(JDict([contract_address |-> JStr(<<"0xabc">>),
                           function_name |-> JStr(<<"mint">>),
                           params |-> EmptyDict]))
      [] s = "{\"contract_address\": \"0xabc\"}" -> Loaded(JDict([contract_address |-> JStr(<<"0xabc">>)]))
      [] s = "[]" -> Loaded(JList)
      [] OTHER -> LoadFails

\* Exceptions of the Model capability.
RateLimitError == [cls |-> "RateLimitError", msg |-> <<"Rate limit reached">>]
APIConnectionError == [cls |-> "APIConnectionError", msg |-> <<"Error communicating with OpenAI">>]
ModelExceptions == {RateLimitError, APIConnectionError}

TypeError(msg) == [cls |-> "TypeError", msg |-> msg]
AttributeError(msg) == [cls |-> "AttributeError", msg |-> msg]

\* What a tool function did: returned a value or raised.
Returned(v) == [raised |-> FALSE, value |-> v, exc |-> NoException]
Raised(e) == [raised |-> TRUE, value |-> EmptyDict, exc |-> e]

\* What the world gives a tool function while it runs: the outcome of its
\* own OpenAI call, the draw of random.choice, the state of black.
ModelOutcomes == {[ok |-> TRUE, text |-> t, exc |-> NoException] : t \in Texts}
                   \cup {[ok |-> FALSE, text |-> <<>>, exc |-> e] : e \in ModelExceptions}
BlackStates == {"missing", "formats", "raises"}
DummyAddresses == {<<"0x", "1f">>, <<"0x", "e2">>}
DefaultEnvironment ==
    [openai |-> [ok |-> TRUE, text |-> <<>>, exc |-> NoException],
     vulnerability |-> 1, interaction |-> 1, black |-> "missing", address |-> <<"0x", "1f">>]

\* f"{value}" of an argument inside a prompt never fails; the four
\* generator tools return the stripped Model text or an error text.
OpenAITool(prefix, env) ==
    IF env.openai.ok
      THEN Returned(JStr(Strip(env.openai.text)))
      ELSE Returned(JStr(<<prefix>> \o Str(env.openai.exc)))

generate_solidity_code(problem, env) == OpenAITool("Error generating Solidity code: ", env)
explain_solidity_code(code, env) == OpenAITool("Error explaining code: ", env)
refactor_solidity_code(code, env) == OpenAITool("Error refactoring code: ", env)
generate_web3_dapp(description, env) == OpenAITool("Error generating dApp code: ", env)

vulnerabilities ==
    << <<"Reentrancy vulnerability detected">>,
       <<"No obvious vulnerabilities">>,
       <<"Potential overflow risk in arithmetic operations">>,
       <<"Unchecked external call risk">>,
       <<"Ensure proper access control on state-changing functions">> >>

analyze_contract(code, env) ==
    Returned(JDict([summary |-> JStr(vulnerabilities[env.vulnerability]),
                    details |-> JStr(<<"This is a simulated vulnerability analysis.">>)]))

simulate_deploy_contract(code, env) ==
    Returned(JDict([contract_address |-> JStr(env.address),
                    deployed_at |-> JStr(<<"now">>)]))

interaction_results == << <<"Success">>, <<"Error">>, <<"No Change">> >>

simulate_contract_interaction(contract_address, function_name, params_, env) ==
    Returned(JDict([contract_address |-> contract_address,
                    function_called |-> function_name,
                    parameters |-> params_,
                    result |-> JStr(interaction_results[env.interaction])]))

\* str.splitlines()
RECURSIVE SplitLines(_)
SplitLines(s) ==
    IF s = <<>> THEN <<>>
    ELSE LET breaks == {i \in 1..Len(s) : s[i] = "\n"}
         IN  IF breaks = {} THEN <<s>>
             ELSE LET i == CHOOSE j \in breaks : \A k \in breaks : j <= k
                  IN  <<SubSeq(s, 1, i - 1)>> \o SplitLines(SubSeq(s, i + 1, Len(s)))

\* "\n".join(lines)
RECURSIVE JoinLines(_)
JoinLines(lines) ==
    IF lines = <<>> THEN <<>>
    ELSE IF Len(lines) = 1 THEN lines[1]
    ELSE lines[1] \o <<"\n">> \o JoinLines(Tail(lines))

RECURSIVE StripNonBlank(_)
StripNonBlank(lines) ==
    IF lines = <<>> THEN <<>>
    ELSE IF Strip(Head(lines)) # <<>>
           THEN <<Strip(Head(lines))>> \o StripNonBlank(Tail(lines))
           ELSE StripNonBlank(Tail(lines))

LooksLikePython(text) == \E i \in 1..Len(text) : text[i] \in {"def ", "import "}

format_code(code, env) ==
    CASE code.t = "int" -> Raised(TypeError(<<"argument of type 'int' is not iterable">>))
      [] code.t = "dict" -> Raised(AttributeError(<<"'dict' object has no attribute 'splitlines'">>))
      [] code.t = "list" -> Raised(AttributeError(<<"'list' object has no attribute 'splitlines'">>))
      [] OTHER ->
           IF LooksLikePython(code.v)
             THEN CASE env.black = "missing" ->
                         Returned(JStr(<<"Black is not installed. Please install it to format Python code.">>))
                    [] env.black = "raises" ->
                         Returned(JStr(<<"Error formatting code: ", "Cannot parse">>))
                    [] OTHER -> Returned(JStr(code.v \o <<"\n">>))
             ELSE Returned(JStr(JoinLines(StripNonBlank(SplitLines(code.v)))))

lint_code(code, env) == Returned(JStr(<<"No linting issues found.">>))

\* function_definitions: the schema of each tool as given to the Model
\* (the JSON type of each property, and the required names).
CodeSchema == [properties |-> [code |-> "string"], required |-> {"code"}]
function_definitions ==
    [generate_solidity_code |-> [properties |-> [problem |-> "string"], required |-> {"problem"}],
     explain_solidity_code |-> CodeSchema,
     refactor_solidity_code |-> CodeSchema,
     analyze_contract |-> CodeSchema,
     generate_web3_dapp |-> [properties |-> [description |-> "string"], required |-> {"description"}],
     simulate_deploy_contract |-> CodeSchema,
     simulate_contract_interaction |->
         [properties |-> [contract_address |-> "string", function_name |-> "string", params |-> "object"],
          required |-> {"contract_address", "function_name", "params"}],
     format_code |-> CodeSchema,
     lint_code |-> CodeSchema]

\* The parameters in the def line of each tool function.
Signature(f) ==
    CASE f = "generate_solidity_code" -> <<"problem">>
      [] f = "generate_web3_dapp" -> <<"description">>
      [] f = "simulate_contract_interaction" -> <<"contract_address", "function_name", "params">>
      [] OTHER -> <<"code">>

\* function_map: tool name -> local implementation.
function_map ==
    [generate_solidity_code |-> "generate_solidity_code",
     explain_solidity_code |-> "explain_solidity_code",
     refactor_solidity_code |-> "refactor_solidity_code",
     analyze_contract |-> "analyze_contract",
     generate_web3_dapp |-> "generate_web3_dapp",
     simulate_deploy_contract |-> "simulate_deploy_contract",
     simulate_contract_interaction |-> "simulate_contract_interaction",
     format_code |-> "format_code",
     lint_code |-> "lint_code"]

\* The body of the tool function f run on bound arguments a.
Body(f, a, env) ==
    CASE f = "generate_solidity_code" -> generate_solidity_code(a.problem, env)
      [] f = "explain_solidity_code" -> explain_solidity_code(a.code, env)
      [] f = "refactor_solidity_code" -> refactor_solidity_code(a.code, env)
      [] f = "analyze_contract" -> analyze_contract(a.code, env)
      [] f = "generate_web3_dapp" -> generate_web3_dapp(a.description, env)
      [] f = "simulate_deploy_contract" -> simulate_deploy_contract(a.code, env)
      [] f = "simulate_contract_interaction" ->
             simulate_contract_interaction(a.contract_address, a.function_name, a.params, env)
      [] f = "format_code" -> format_code(a.code, env)
      [] OTHER -> lint_code(a.code, env)

SeqToSet(q) == {q[i] : i \in 1..Len(q)}

\* f(**arguments): Python binds the keywords to the parameters of f before
\* the body runs; a non-mapping, an unexpected keyword or a missing
\* parameter raises TypeError and the body is not entered.
Invoke(f, arguments, env) ==
    IF arguments.t # "dict"
      THEN [entered |-> FALSE, arguments |-> arguments,
            outcome |-> Raised(TypeError(<<f, "() argument after ** must be a mapping, not ", arguments.t>>))]
    ELSE IF Keys(arguments) \ SeqToSet(Signature(f)) # {}
      THEN [entered |-> FALSE, arguments |-> arguments,
            outcome |-> Raised(TypeError(<<f, "() got an unexpected keyword argument">>))]
    ELSE IF SeqToSet(Signature(f)) \ Keys(arguments) # {}
      THEN [entered |-> FALSE, arguments |-> arguments,
            outcome |-> Raised(TypeError(<<f, "() missing required positional arguments: ">>
                                 \o SelectSeq(Signature(f), LAMBDA k : k \notin Keys(arguments))))]
    ELSE [entered |-> TRUE, arguments |-> arguments, outcome |-> Body(f, arguments.items, env)]

\* The part of the world the tool function f depends on.
Environments(f) ==
    CASE f \in {"generate_solidity_code", "explain_solidity_code",
                "refactor_solidity_code", "generate_web3_dapp"} ->
             {[DefaultEnvironment EXCEPT !.openai = o] : o \in ModelOutcomes}
      [] f = "analyze_contract" ->
             {[DefaultEnvironment EXCEPT !.vulnerability = i] : i \in 1..Len(vulnerabilities)}
      [] f = "simulate_contract_interaction" ->
             {[DefaultEnvironment EXCEPT !.interaction = i] : i \in 1..Len(interaction_results)}
      [] f = "simulate_deploy_contract" ->
             {[DefaultEnvironment EXCEPT !.address = a] : a \in DummyAddresses}
      [] f = "format_code" ->
             {[DefaultEnvironment EXCEPT !.black = b] : b \in BlackStates}
      [] OTHER -> {DefaultEnvironment}

(***************************************************************************)
(* mcp_web3.py: the /api/chat turn.                                        *)
(***************************************************************************)
\* Message contents: null, a text, or the text json.dumps made of a value.
NoContent == [null |-> TRUE]
TextContent(text) == [text |-> text]

\* function_call of a Model message; a missing or empty function_call has
\* neither key and is falsy.
NoFunctionCall == [name |-> Absent, arguments |-> Absent]
ToolNames == DOMAIN function_map
RequestedNames == ToolNames \cup {"deploy_missing_tool", Absent}
FunctionCalls ==
    [name : RequestedNames, arguments : ArgumentStrings \cup {Absent}] \ {NoFunctionCall}

ModelMessages ==
    {[role |-> "assistant", content |-> TextContent(t), function_call |-> NoFunctionCall] : t \in Texts}
      \cup {[role |-> "assistant", content |-> NoContent, function_call |-> fc] : fc \in FunctionCalls}

NoMessage == [role |-> None, content |-> NoContent, function_call |-> NoFunctionCall]

\* message.get("function_call") is truthy
RequestsTool(m) == m.function_call # NoFunctionCall

\* func_call.get("name")
FuncName(m) == IF m.function_call.name = Absent THEN None ELSE m.function_call.name

\* Mutant: text that is not JSON is not replaced by {}.
ParseArguments_NotReset(m) ==
    LET arguments_str == IF m.function_call.arguments = Absent THEN "{}" ELSE m.function_call.arguments
        loaded == JsonLoads(arguments_str)
    IN  IF loaded.ok THEN loaded.value ELSE JList

\* func_call.get("arguments", "{}"), json.loads, and {} when that raises.
ParseArguments(m) ==
    LET arguments_str == IF m.function_call.arguments = Absent THEN "{}" ELSE m.function_call.arguments
        loaded == JsonLoads(arguments_str)
    IN  IF loaded.ok THEN loaded.value ELSE EmptyDict

NoCall == [looked_up |-> None, found |-> FALSE, invoked |-> FALSE, entered |-> FALSE,
           arguments |-> EmptyDict, outcome |-> Returned(EmptyDict),
           env |-> DefaultEnvironment, count |-> 0]

NotImplementedText(func_name) == <<"Error: Function '", func_name, "' not implemented.">>

\* Mutant: a name that is not registered falls back to the last registered tool.
Dispatch_FallbackTool(m, env) ==
    IF ~RequestsTool(m) THEN [message |-> m, call |-> NoCall]
    ELSE LET func_name == FuncName(m)
             arguments == ParseArguments(m)
             f == IF func_name \in DOMAIN function_map THEN function_map[func_name] ELSE "lint_code"
             inv == Invoke(f, arguments, env)
         IN  [message |-> IF inv.outcome.raised THEN m
                          ELSE [m EXCEPT !.content = JsonDumps(inv.outcome.value)],
              call |-> [looked_up |-> func_name, found |-> func_name \in DOMAIN function_map,
                        invoked |-> TRUE, entered |-> inv.entered, arguments |-> arguments,
                        outcome |-> inv.outcome, env |-> env, count |-> 1]]

\* Lines 343-355: what the dispatch does to the message, and what it called.
Dispatch(m, env) ==
    IF ~RequestsTool(m) THEN [message |-> m, call |-> NoCall]
    ELSE LET func_name == FuncName(m)
             arguments == ParseArguments(m)
         IN  IF func_name \in DOMAIN function_map
               THEN LET inv == Invoke(function_map[func_name], arguments, env)
                    IN  [message |-> IF inv.outcome.raised THEN m
                                     ELSE [m EXCEPT !.content = JsonDumps(inv.outcome.value)],
                         call |-> [looked_up |-> func_name, found |-> TRUE, invoked |-> TRUE,
                                   entered |-> inv.entered, arguments |-> arguments,
                                   outcome |-> inv.outcome, env |-> env, count |-> 1]]
               ELSE [message |-> [m EXCEPT !.content = TextContent(NotImplementedText(func_name))],
                     call |-> [NoCall EXCEPT !.looked_up = func_name, !.arguments = arguments]]

\* jsonify(body), status
JsonResponse(status, body) == [status |-> status, kind |-> "json", body |-> body]
\* An exception that leaves chat: the framework answers 500 without a body of chat's.
UnhandledException(e) == [status |-> 500, kind |-> "unhandled", body |-> [exception |-> e]]
NoResponse == [status |-> 0, kind |-> "none", body |-> <<>>]

\* Conversation logs a caller may post.
UserMessage == [role |-> "user", content |-> TextContent(<<"deploy my token">>)]
SystemMessage == [role |-> "system", content |-> TextContent(<<"You are a Web3 assistant.">>)]
MessageLogs == {<<>>, <<UserMessage>>, <<SystemMessage, UserMessage>>}

\* POST /api/chat: the body is read and the Model is called.
ChatRequest(msgs, reasoning_effort) ==
    /\ cpc = "idle"
    /\ request' = [messages |-> msgs, reasoning_effort |-> reasoning_effort]
    /\ messages' = msgs
    /\ modelCalls' = modelCalls + 1
    /\ cpc' = "awaiting_model"
    /\ UNCHANGED <<insightVars, modelError, reply, message, call, response>>

\* Mutant: the failed Model call is issued again.
ModelRaises_Retry(e) ==
    /\ cpc = "awaiting_model"
    /\ modelError' = e
    /\ modelCalls' = modelCalls + 1
    /\ UNCHANGED <<insightVars, cpc, request, messages, reply, message, call, response>>

\* The Model call raises: {"error": str(e)}, 500.
ModelRaises(e) ==
    /\ cpc = "awaiting_model"
    /\ modelError' = e
    /\ response' = JsonResponse(500, [error |-> Str(e)])
    /\ cpc' = "done"
    /\ UNCHANGED <<insightVars, request, messages, modelCalls, reply, message, call>>

\* The Model call returns: message = response.choices[0].message.
ModelReplies(m) ==
    /\ cpc = "awaiting_model"
    /\ reply' = m
    /\ message' = m
    /\ cpc' = "replied"
    /\ UNCHANGED <<insightVars, request, messages, modelCalls, modelError, call, response>>

\* Mutant: the tool result is appended to the log and the Model is asked again.
ChatDispatch_Requery(env) ==
    /\ cpc = "replied"
    /\ LET d == Dispatch(message, env)
       IN  /\ message' = d.message
           /\ call' = d.call
           /\ IF RequestsTool(message) /\ ~d.call.outcome.raised
                THEN /\ messages' = Append(messages, [role |-> "function", content |-> d.message.content])
                     /\ modelCalls' = modelCalls + 1
                     /\ cpc' = "awaiting_model"
                     /\ UNCHANGED response
                ELSE /\ response' = IF d.call.outcome.raised
                                      THEN UnhandledException(d.call.outcome.exc)
                                      ELSE JsonResponse(200, d.message)
                     /\ cpc' = "done"
                     /\ UNCHANGED <<messages, modelCalls>>
    /\ UNCHANGED <<insightVars, request, modelError, reply>>

\* Mutant: the tool result is written into the last message of the log.
ChatDispatch_WriteIntoLog(env) ==
    /\ cpc = "replied"
    /\ LET d == Dispatch(message, env)
       IN  /\ message' = d.message
           /\ call' = [d.call EXCEPT !.count = call.count + d.call.count]
           /\ messages' = IF RequestsTool(message) /\ messages # <<>>
                             THEN [messages EXCEPT ![Len(messages)].content = d.message.content]
                             ELSE messages
           /\ response' = IF d.call.outcome.raised
                            THEN UnhandledException(d.call.outcome.exc)
                            ELSE JsonResponse(200, d.message)
    /\ cpc' = "done"
    /\ UNCHANGED <<insightVars, request, modelCalls, modelError, reply>>

\* Mutant: the dispatch is repeated while the message still carries a function_call.
ChatDispatch_Loop(env) ==
    /\ cpc = "replied"
    /\ LET d == Dispatch(message, env)
       IN  /\ message' = d.message
           /\ call' = [d.call EXCEPT !.count = call.count + d.call.count]
           /\ response' = IF d.call.outcome.raised
                            THEN UnhandledException(d.call.outcome.exc)
                            ELSE JsonResponse(200, d.message)
           /\ cpc' = IF RequestsTool(d.message) /\ ~d.call.outcome.raised /\ call.count < 1
                       THEN "replied" ELSE "done"
    /\ UNCHANGED <<insightVars, request, messages, modelCalls, modelError, reply>>

\* Lines 343-357: the requested tool, if any, runs and the message is returned.
ChatDispatch(env) ==
    /\ cpc = "replied"
    /\ LET d == Dispatch(message, env)
       IN  /\ message' = d.message
           /\ call' = [d.call EXCEPT !.count = call.count + d.call.count]
           /\ response' = IF d.call.outcome.raised
                            THEN UnhandledException(d.call.outcome.exc)
                            ELSE JsonResponse(200, d.message)
    /\ cpc' = "done"
    /\ UNCHANGED <<insightVars, request, messages, modelCalls, modelError, reply>>

InitChat ==
    /\ cpc = "idle"
    /\ request = [messages |-> <<>>, reasoning_effort |-> None]
    /\ messages = <<>>
    /\ modelCalls = 0
    /\ modelError = NoException
    /\ reply = NoMessage
    /\ message = NoMessage
    /\ call = NoCall
    /\ response = NoResponse

\* The environments of the tool the held message asks for.
DispatchEnvironments ==
    IF RequestsTool(message) /\ FuncName(message) \in DOMAIN function_map
      THEN Environments(function_map[FuncName(message)])
      ELSE {DefaultEnvironment}

NextChat ==
    \/ \E msgs \in MessageLogs, r \in ReasoningEfforts : ChatRequest(msgs, r)
    \/ \E e \in ModelExceptions : ModelRaises(e)
    \/ \E m \in ModelMessages : ModelReplies(m)
    \/ \E env \in DispatchEnvironments : ChatDispatch(env)

Init == InitInsights /\ InitChat

SpecInsights == Init /\ [][NextInsights]_vars

SpecChat == Init /\ [][NextChat]_vars


(***************************************************************************)
(* Properties of generate_insights.                                        *)
(***************************************************************************)
\* The aggregate has been handed to the synthesis step.
Aggregated == ipc \in {"query", "done"}

\* An entry of the aggregate: a payload or an error dict.
IsErrorEntry(v) == DOMAIN v = {"error"}
IsEntry(v) == v \in Payloads \/ IsErrorEntry(v)

\* The entry the code documents for what happened on the wire of source s.
EntryMatchesWire(s, v) ==
    CASE wire[s] = "ok" -> v \in Payloads
      [] wire[s] = "status" -> v \in {StatusError(s, st) : st \in Statuses \ {200}}
      [] wire[s] = "exception" -> v \in {ExceptionError(e) : e \in {ConnectionError, ContentTypeError}}
      [] wire[s] = "timeout" -> v = ExceptionError(TimeoutError)
      [] OTHER -> FALSE

\* C1: whatever the per-source outcomes (success, non-200 status, transport
\* exception, timeout), the aggregate handed to the synthesis step has
\* exactly one entry for each of the three identifiers, none dropped, none
\* added, and each entry is a payload or an error dict.
C1_AggregationCompleteness ==
    Aggregated =>
        /\ DOMAIN aggregate = Sources
        /\ \A s \in Sources : IsEntry(aggregate[s]) /\ wire[s] # "none"

C1_Witness ==
    /\ Aggregated
    /\ wire = [sentiment |-> "timeout", token |-> "status", trader |-> "exception"]
    /\ \A s \in Sources : IsErrorEntry(aggregate[s])

\* C2: when exactly one of the three fetches fails (non-200 status or an
\* exception), the aggregate still holds the successful payload of each of
\* the other two sources, as returned by its own fetch.
ExactlyOneFailed == Cardinality({s \in Sources : wire[s] \in {"status", "exception", "timeout"}}) = 1

C2_FailureIsolation ==
    (Aggregated /\ ExactlyOneFailed) =>
        \A s \in Sources :
            wire[s] = "ok" => (aggregate[s] \in Payloads /\ aggregate[s] = result[s])

C2_Witness ==
    /\ Aggregated
    /\ wire = [sentiment |-> "ok", token |-> "status", trader |-> "ok"]
    /\ aggregate.sentiment \in Payloads
    /\ aggregate.trader \in Payloads
    /\ IsErrorEntry(aggregate.token)

\* C9: the aggregation step has completed, and the synthesis request has
\* been issued, only when every launched fetch is done (completed, failed
\* or timed out).
C9_FanInBarrier ==
    (Aggregated \/ openaiCalls > 0 \/ aggregate # NoAggregate) =>
        \A s \in Sources : task[s] = "done" /\ wire[s] # "none"

C9_Witness ==
    /\ ipc = "query"
    /\ openaiCalls = 1
    /\ wire = [sentiment |-> "exception", token |-> "ok", trader |-> "timeout"]

\* C10: a fetch that times out yields the timeout error entry for its own
\* identifier; the step on which it times out leaves the position and the
\* result of every sibling fetch unchanged, and the aggregate still has, for
\* every sibling, the entry of that sibling's own outcome.
C10_TimeoutEntry ==
    Aggregated =>
        \A s \in Sources :
            wire[s] = "timeout" =>
                /\ aggregate[s] = ExceptionError(TimeoutError)
                /\ \A t \in Sources \ {s} : EntryMatchesWire(t, aggregate[t])

C10_TimeoutStep ==
    \A s \in Sources :
        (wire[s] # "timeout" /\ wire'[s] = "timeout") =>
            \A t \in Sources \ {s} :
                task'[t] = task[t] /\ result'[t] = result[t] /\ wire'[t] = wire[t]

C10_TimeoutIsolation == [](C10_TimeoutEntry) /\ [][C10_TimeoutStep]_vars

C10_Witness ==
    /\ ipc = "done"
    /\ wire = [sentiment |-> "timeout", token |-> "ok", trader |-> "ok"]
    /\ aggregate.sentiment = ExceptionError(TimeoutError)
    /\ aggregate.token \in Payloads
    /\ aggregate.trader \in Payloads

(***************************************************************************)
(* Properties of chat.                                                     *)
(***************************************************************************)
\* The turn is over and the Model had asked for a tool.
ToolTurnDone == cpc = "done" /\ RequestsTool(reply)

\* C3: when the Model asks for a tool name that is not in function_map, the
\* dispatch answers with the not-implemented error for that name and no
\* tool function is invoked.
C3_UnknownTool ==
    (ToolTurnDone /\ FuncName(reply) \notin DOMAIN function_map) =>
        /\ response = JsonResponse(200,
               [reply EXCEPT !.content = TextContent(NotImplementedText(FuncName(reply)))])
        /\ ~call.invoked
        /\ ~call.entered

C3_Witness ==
    /\ ToolTurnDone
    /\ FuncName(reply) = "deploy_missing_tool"
    /\ response.status = 200
    /\ response.body.content = TextContent(NotImplementedText("deploy_missing_tool"))
    /\ ~call.invoked

\* C4: whenever the body of the bound tool function raises, the failure is
\* returned to the caller as a result object, never as a raw exception
\* leaving chat.
C4_HandlerErrorWrapped ==
    (ToolTurnDone /\ call.entered /\ call.outcome.raised) =>
        (response.kind = "json" /\ response.status = 200)

\* The text names every one of the given fields.
NamesFields(content, fields) ==
    /\ "text" \in DOMAIN content
    /\ \A f \in fields : \E i \in 1..Len(content.text) : content.text[i] = f

RegisteredToolTurn == ToolTurnDone /\ FuncName(reply) \in DOMAIN function_map

\* Required fields of the requested tool that the parsed arguments omit.
OmittedFields == function_definitions[FuncName(reply)].required \ Keys(ParseArguments(reply))

\* Fields of the parsed arguments that the schema of the requested tool lacks.
UnknownFields == Keys(ParseArguments(reply)) \ DOMAIN function_definitions[FuncName(reply)].properties

\* The JSON type of a parsed value.
JsonType(value) ==
    CASE value.t = "str" -> "string"
      [] value.t = "dict" -> "object"
      [] value.t = "list" -> "array"
      [] OTHER -> "integer"

\* Every field of the parsed arguments that the schema knows has the schema's type.
KnownFieldsTyped ==
    LET properties == function_definitions[FuncName(reply)].properties
        items == ParseArguments(reply).items
    IN  \A k \in DOMAIN items \cap DOMAIN properties : JsonType(items[k]) = properties[k]

\* C5: for a registered tool, arguments that omit a required field yield a
\* validation-error result naming the omitted field, and the tool function
\* does not run.
C5_MissingRequiredRejected ==
    (RegisteredToolTurn /\ ParseArguments(reply).t = "dict" /\ OmittedFields # {}) =>
        /\ response.kind = "json"
        /\ NamesFields(response.body.content, OmittedFields)
        /\ ~call.entered

\* C6: for a registered tool, arguments that carry every required field with
\* the type of the schema, plus fields unknown to the schema, do not make
\* the dispatch fail: the tool function runs and its result is returned.
C6_UnknownFieldsIgnored ==
    (/\ RegisteredToolTurn
     /\ ParseArguments(reply).t = "dict"
     /\ OmittedFields = {}
     /\ UnknownFields # {}
     /\ KnownFieldsTyped) =>
        /\ response.kind = "json"
        /\ call.entered
        /\ ~call.outcome.raised

\* C7 as stated: after a tool call the turn ends only once a tool-result
\* message has been appended to the log and the Model has been queried again.
C7_RequeryAfterTool ==
    (ToolTurnDone /\ response.kind = "json") =>
        /\ modelCalls >= 2
        /\ Len(messages) = Len(request.messages) + 1

\* C7 amended: chat queries the Model exactly once per turn and never appends
\* to the log; when a turn in which the Model asked for a tool returns a
\* message, that message is the Model's own reply with its content replaced
\* by the dispatch output (the serialised tool result, or the
\* not-implemented error text), returned with status 200.
C7_ResultReturnedDirectly ==
    /\ cpc # "idle" => (modelCalls = 1 /\ messages = request.messages)
    /\ (ToolTurnDone /\ response.kind = "json") =>
          /\ response.status = 200
          /\ response.body = message
          /\ message.function_call = reply.function_call
          /\ message.content =
                IF call.invoked THEN JsonDumps(call.outcome.value)
                ELSE TextContent(NotImplementedText(FuncName(reply)))

C7_Witness ==
    /\ ToolTurnDone
    /\ FuncName(reply) = "generate_solidity_code"
    /\ call.entered
    /\ response.status = 200
    /\ response.body.content = JsonDumps(JStr(<<"a">>))
    /\ modelCalls = 1
    /\ messages = <<SystemMessage, UserMessage>>

\* C8: when the Model call of chat raises, the turn ends with the error
\* handed to the caller (status 500, the exception text); the Model was
\* called once, no tool was dispatched and no assistant message is returned.
C8_ModelErrorEndsTurn ==
    modelError # NoException =>
        /\ cpc = "done"
        /\ response = JsonResponse(500, [error |-> Str(modelError)])
        /\ modelCalls = 1
        /\ call = NoCall
        /\ message = NoMessage

C8_Witness ==
    /\ cpc = "done"
    /\ modelError = RateLimitError
    /\ response.status = 500
    /\ response.body = [error |-> <<"Rate limit reached">>]
    /\ modelCalls = 1

(***************************************************************************)
(* Further properties of chat.                                             *)
(***************************************************************************)
\* The tools whose work is a call to the Model.
OpenAITools == {"generate_solidity_code", "explain_solidity_code",
                "refactor_solidity_code", "generate_web3_dapp"}

\* The body of the requested tool ran and its own Model call failed.
WorkFailed ==
    /\ RegisteredToolTurn
    /\ call.entered
    /\ FuncName(reply) \in OpenAITools
    /\ ~call.env.openai.ok

\* The returned message carries a tool output / an error.
OutputSet == response.kind = "json" /\ "json" \in DOMAIN response.body.content
ErrorSet == response.kind = "json" /\ "text" \in DOMAIN response.body.content

\* C11: a dispatch that returns to the caller sets exactly one of output and
\* error, and a tool whose own work failed is reported as an error, not as
\* an output.
C11_ExactlyOneOfOutputError ==
    (ToolTurnDone /\ response.kind = "json") =>
        /\ OutputSet # ErrorSet
        /\ WorkFailed => (ErrorSet /\ ~OutputSet)

\* C14 as stated: the tool result is added to the log as a new message and
\* is not written into a message that already exists.
C14_ToolResultAsNewMessage ==
    (ToolTurnDone /\ response.kind = "json") =>
        /\ message = reply
        /\ Len(messages) = Len(request.messages) + 1
        /\ SubSeq(messages, 1, Len(request.messages)) = request.messages

\* C14 amended: during a turn chat never changes the log, neither a message
\* of it nor its length; the dispatch writes the tool result into the
\* content of the Model's reply message, which is not in the log, and keeps
\* that message's role and function_call; a reply that asks for no tool is
\* not changed at all.
C14_Step ==
    /\ cpc # "idle" => messages' = messages
    /\ (cpc = "replied" /\ cpc' = "done") =>
          /\ message'.role = message.role
          /\ message'.function_call = message.function_call
          /\ ~RequestsTool(message) => message' = message
          /\ (RequestsTool(message) /\ response'.kind = "json") =>
                 (message'.content # message.content /\ response'.body = message')

C14_LogUntouched == [][C14_Step]_vars

C14_Witness ==
    /\ ToolTurnDone
    /\ FuncName(reply) = "analyze_contract"
    /\ call.entered
    /\ messages = <<SystemMessage, UserMessage>>
    /\ request.messages = <<SystemMessage, UserMessage>>
    /\ reply.content = NoContent
    /\ message.content = JsonDumps(call.outcome.value)
    /\ response.body = message

\* C15: in one turn at most one tool function is invoked and the Model is
\* queried at most once: a reply that asks for a registered tool causes
\* exactly one invocation, any other reply none.
C15_OneDispatchPerReply ==
    /\ call.count <= 1
    /\ modelCalls <= 1
    /\ cpc = "done" => (call.count = 1 <=> RegisteredToolTurn)

C15_Witness ==
    /\ RegisteredToolTurn
    /\ FuncName(reply) = "simulate_deploy_contract"
    /\ call.entered
    /\ call.count = 1
    /\ modelCalls = 1
    /\ response.status = 200

\* The arguments string of the reply is present and is not JSON.
InvalidArguments ==
    /\ reply.function_call.arguments # Absent
    /\ ~JsonLoads(reply.function_call.arguments).ok

\* C17: when the arguments string is not valid JSON the request is not
\* rejected: the arguments become the empty object, the name is looked up,
\* a registered tool function is invoked with no arguments (which the call
\* itself refuses, as every tool has parameters) and an unregistered name
\* gets the not-implemented answer.
C17_InvalidJsonBecomesEmpty ==
    (ToolTurnDone /\ InvalidArguments) =>
        /\ call.arguments = EmptyDict
        /\ call.looked_up = FuncName(reply)
        /\ FuncName(reply) \in DOMAIN function_map =>
              /\ call.invoked
              /\ call.count = 1
              /\ ~call.entered
              /\ call.outcome.raised
              /\ response = UnhandledException(call.outcome.exc)
        /\ FuncName(reply) \notin DOMAIN function_map =>
              /\ ~call.invoked
              /\ response.status = 200

C17_Witness ==
    /\ ToolTurnDone
    /\ InvalidArguments
    /\ FuncName(reply) = "lint_code"
    /\ call.invoked
    /\ call.arguments = EmptyDict
    /\ call.outcome.exc.cls = "TypeError"

(***************************************************************************)
(* Further properties of generate_insights.                                *)
(***************************************************************************)
\* What generate_insights returns when the Model answers with text t.
Narrative(t) == [kind |-> "text", text |-> Strip(t)]

\* C12: a Model failure during synthesis is reported as an error that the
\* caller can tell from every narrative a successful call can return, and
\* the Model request was issued once.
C12_SynthesisErrorDistinguishable ==
    (ipc = "done" /\ ~answer.ok) =>
        /\ openaiCalls = 1
        /\ summary \notin {Narrative(t) : t \in Narratives}

\* C13 as stated: the Model's text is returned exactly as the Model gave it.
C13_TextUnmodified ==
    (ipc = "done" /\ answer.ok) => summary.text = answer.text

Blanks(n) == [i \in 1..n |-> " "]

\* The text is the other one without its leading and trailing blanks.
IsStripped(text, of) ==
    /\ text = <<>> \/ (text[1] # " " /\ text[Len(text)] # " ")
    /\ \E i \in 0..Len(of), j \in 0..Len(of) : of = Blanks(i) \o text \o Blanks(j)

\* C13 amended: the one Model request holds, for every source, the
\* serialised entry that the source's fetch returned, an error entry as it
\* is; the Model's text is returned with its leading and trailing
\* whitespace removed and is otherwise unchanged.
C13_PromptVerbatimTextStripped ==
    /\ Aggregated =>
          /\ openaiCalls = 1
          /\ Len(prompt) = Len(GatherOrder)
          /\ \A i \in 1..Len(GatherOrder) : prompt[i][3] = JsonDumps(result[GatherOrder[i]])
    /\ (ipc = "done" /\ answer.ok) => IsStripped(summary.text, answer.text)

C13_Witness ==
    /\ ipc = "done"
    /\ wire = [sentiment |-> "status", token |-> "ok", trader |-> "exception"]
    /\ prompt[1][3] = JsonDumps(StatusError("sentiment", 404))
    /\ prompt[3][3] = JsonDumps(ExceptionError(ConnectionError))
    /\ answer.ok
    /\ answer.text = <<" ", "a">>
    /\ summary.text = <<"a">>

\* C16: whatever the order in which the fetches end, the aggregate holds
\* under each identifier the value returned by that identifier's own fetch,
\* and a step that sets the result of one fetch leaves the position, the
\* outcome and the result of every other fetch unchanged.
C16_OwnEntry ==
    Aggregated =>
        \A s \in Sources : aggregate[s] = result[s] /\ EntryMatchesWire(s, aggregate[s])

C16_Step ==
    \A s \in Sources :
        result'[s] # result[s] =>
            /\ task[s] # "done" /\ task'[s] = "done"
            /\ \A t \in Sources \ {s} :
                  result'[t] = result[t] /\ task'[t] = task[t] /\ wire'[t] = wire[t]

C16_OrderIndependence == [](C16_OwnEntry) /\ [][C16_Step]_vars

C16_Witness ==
    /\ Aggregated
    /\ finished = <<"trader", "token", "sentiment">>
    /\ aggregate.sentiment = [data |-> <<"d", "1">>]
    /\ aggregate.token = [data |-> <<"d", "2">>]
    /\ aggregate.trader = StatusError("trader", 500)

====
